---- MODULE Spec2Model ----
(***************************************************************************)
(* Model of bin/shared/fs_utils.py: the gitignore pattern compiler and     *)
(* matcher, the binary detector and the filtered directory walker.         *)
(*                                                                         *)
(* Strings (patterns, paths, file names, regular expressions) are          *)
(* sequences of one-character strings, so that every string operation of   *)
(* the source (startswith, strip, replace, re.escape, re.search,           *)
(* os.path.join, os.path.relpath) is computed character by character.      *)
(***************************************************************************)
EXTENDS Integers, Sequences, FiniteSets, TLC

VARIABLES
    call,       \* the last call made on the pattern primitives (SpecPattern)
    tree,       \* the directory tree on disk (read-only for the program)
    root_dir,   \* the root_dir argument of walk_filtered_files
    config,     \* show_hidden, show_deps, respect_gitignore, binary_check
    walker,     \* per generator object: its frame (locals and position)
    results,    \* per walk that ran to its end, in order: the set of entries it yielded
    started     \* number of walk_filtered_files invocations made so far

vars == <<call, tree, root_dir, config, walker, results, started>>

(***************************************************************************)
(* Bounds of the model.                                                    *)
(***************************************************************************)
\* longest pattern list handed to is_ignored_by_gitignore in SpecPattern
MaxPatterns == 3
\* number of walk_filtered_files invocations in one behaviour
MaxWalks == 3

(***************************************************************************)
(* String primitives.                                                      *)
(***************************************************************************)
StartsWith(s, p) == Len(p) <= Len(s) /\ SubSeq(s, 1, Len(p)) = p

EndsWith(s, p) == Len(p) <= Len(s) /\ SubSeq(s, Len(s) - Len(p) + 1, Len(s)) = p

Drop(s, n) == SubSeq(s, n + 1, Len(s))

\* str.replace(old, new): every non-overlapping occurrence, left to right
RECURSIVE Replace(_, _, _)
Replace(s, old, new) ==
    IF s = <<>> THEN <<>>
    ELSE IF StartsWith(s, old) THEN new \o Replace(Drop(s, Len(old)), old, new)
    ELSE <<Head(s)>> \o Replace(Tail(s), old, new)

\* the characters str.strip() removes
Whitespace == {" ", "\t", "\n", "\r", "\f"}

RECURSIVE LStrip(_)
LStrip(s) == IF s # <<>> /\ Head(s) \in Whitespace THEN LStrip(Tail(s)) ELSE s

RECURSIVE RStrip(_)
RStrip(s) ==
    IF s # <<>> /\ s[Len(s)] \in Whitespace THEN RStrip(SubSeq(s, 1, Len(s) - 1)) ELSE s

Strip(s) == RStrip(LStrip(s))

\* the characters re.escape() puts a backslash in front of
ReSpecialChars ==
    {"(", ")", "[", "]", "{", "}", "?", "*", "+", "-", "|", "^", "$", "\\", ".",
     "&", "~", "#", " ", "\t", "\n", "\r", "\f"}

RECURSIVE re_escape(_)
re_escape(s) ==
    IF s = <<>> THEN <<>>
    ELSE (IF Head(s) \in ReSpecialChars THEN <<"\\", Head(s)>> ELSE <<Head(s)>>)
         \o re_escape(Tail(s))

\* str.split('/'): the pieces between the '/' characters
RECURSIVE Segments(_)
Segments(path) ==
    IF \A p \in 1..Len(path) : path[p] # "/" THEN <<path>>
    ELSE LET p == CHOOSE q \in 1..Len(path) :
                      path[q] = "/" /\ \A r \in 1..(q - 1) : path[r] # "/"
         IN  <<SubSeq(path, 1, p - 1)>> \o Segments(Drop(path, p))

\* '/'.join(comps)
RECURSIVE JoinSegments(_)
JoinSegments(comps) ==
    IF comps = <<>> THEN <<>>
    ELSE IF Len(comps) = 1 THEN comps[1]
    ELSE comps[1] \o <<"/">> \o JoinSegments(Tail(comps))

\* [x for x in comps if x]
RECURSIVE NonEmpty(_)
NonEmpty(comps) ==
    IF comps = <<>> THEN <<>>
    ELSE (IF Head(comps) = <<>> THEN <<>> ELSE <<Head(comps)>>) \o NonEmpty(Tail(comps))

(***************************************************************************)
(* os.path (posixpath), as far as the walker uses it.                      *)
(***************************************************************************)
\* os.getcwd() of the process
Cwd == <<"/", "r">>

isabs(path) == StartsWith(path, <<"/">>)

\* os.path.join(a, b)
join(a, b) ==
    IF isabs(b) THEN b
    ELSE IF a = <<>> \/ EndsWith(a, <<"/">>) THEN a \o b
    ELSE a \o <<"/">> \o b

\* the loop of normpath over the components: drop '' and '.', resolve '..'
RECURSIVE NormComps(_, _, _)
NormComps(comps, new_comps, initial_slashes) ==
    IF comps = <<>> THEN new_comps
    ELSE LET comp == Head(comps) IN
         IF comp = <<>> \/ comp = <<".">>
         THEN NormComps(Tail(comps), new_comps, initial_slashes)
         ELSE IF \/ comp # <<".", ".">>
                 \/ (initial_slashes = 0 /\ new_comps = <<>>)
                 \/ (new_comps # <<>> /\ new_comps[Len(new_comps)] = <<".", ".">>)
         THEN NormComps(Tail(comps), Append(new_comps, comp), initial_slashes)
         ELSE IF new_comps # <<>>
         THEN NormComps(Tail(comps), SubSeq(new_comps, 1, Len(new_comps) - 1),
                        initial_slashes)
         ELSE NormComps(Tail(comps), new_comps, initial_slashes)

\* os.path.normpath(path)
normpath(path) ==
    IF path = <<>> THEN <<".">>
    ELSE LET initial_slashes ==
                 IF ~isabs(path) THEN 0
                 ELSE IF StartsWith(path, <<"/", "/">>) /\ ~StartsWith(path, <<"/", "/", "/">>)
                      THEN 2 ELSE 1
             body == JoinSegments(NormComps(Segments(path), <<>>, initial_slashes))
             full == [k \in 1..initial_slashes |-> "/"] \o body
         IN  IF full = <<>> THEN <<".">> ELSE full

\* os.path.abspath(path)
abspath(path) == normpath(IF isabs(path) THEN path ELSE join(Cwd, path))

\* len(commonprefix([a, b])) of two component lists
RECURSIVE CommonPrefixLen(_, _)
CommonPrefixLen(a, b) ==
    IF a = <<>> \/ b = <<>> \/ Head(a) # Head(b) THEN 0
    ELSE 1 + CommonPrefixLen(Tail(a), Tail(b))

\* os.path.relpath(path, start)
relpath(path, start) ==
    LET start_list == NonEmpty(Segments(abspath(start)))
        path_list == NonEmpty(Segments(abspath(path)))
        i == CommonPrefixLen(start_list, path_list)
        rel_list == [k \in 1..(Len(start_list) - i) |-> <<".", ".">>]
                    \o SubSeq(path_list, i + 1, Len(path_list))
    IN  IF rel_list = <<>> THEN <<".">> ELSE JoinSegments(rel_list)

\* head.rstrip('/')
RECURSIVE RStripSep(_)
RStripSep(s) ==
    IF s # <<>> /\ s[Len(s)] = "/" THEN RStripSep(SubSeq(s, 1, Len(s) - 1)) ELSE s

\* os.path.dirname(path)
dirname_of(path) ==
    LET cut == {p \in 1..Len(path) : path[p] = "/"} IN
    IF cut = {} THEN <<>>
    ELSE LET i == CHOOSE m \in cut : \A x \in cut : x <= m
             head == SubSeq(path, 1, i)
         IN  IF \A k \in 1..Len(head) : head[k] = "/" THEN head ELSE RStripSep(head)

(***************************************************************************)
(* Regular expressions, as far as _pattern_to_regex produces them: the     *)
(* source text of the expression is tokenised (re.compile) and searched    *)
(* with backtracking (Pattern.search).                                     *)
(***************************************************************************)
ReBol == <<"^">>
ReBolOrSep == <<"(", "^", "|", "/", ")">>
ReSepOrEol == <<"(", "/", "|", "$", ")">>
ReEolOrSep == <<"(", "$", "|", "/", ")">>
ReEolOnly == <<"(", "$", "|", "$", ")">>
ReAny == <<".", "*">>
ReNoSepStar == <<"[", "^", "/", "]", "*">>
ReNoSep == <<"[", "^", "/", "]">>

\* the items of an expression body: an escaped or plain literal, .*, [^/]*, [^/]
RECURSIVE ReItems(_)
ReItems(r) ==
    IF r = <<>> THEN <<>>
    ELSE IF Head(r) = "\\" /\ Len(r) >= 2
         THEN <<[t |-> "lit", c |-> r[2]]>> \o ReItems(Drop(r, 2))
    ELSE IF StartsWith(r, ReAny) THEN <<[t |-> "any"]>> \o ReItems(Drop(r, 2))
    ELSE IF StartsWith(r, ReNoSepStar) THEN <<[t |-> "nosepstar"]>> \o ReItems(Drop(r, 5))
    ELSE IF StartsWith(r, ReNoSep) THEN <<[t |-> "nosep"]>> \o ReItems(Drop(r, 4))
    ELSE <<[t |-> "lit", c |-> Head(r)]>> \o ReItems(Tail(r))

\* the alternatives of a group (x|y) of two one-character alternatives
GroupAlts(g) == {g[2], g[4]}

\* re.compile: the leading anchor (^ or a group), the body items, the trailing group
re_compile(r) ==
    LET bol == StartsWith(r, ReBol)
        rest == IF bol THEN Drop(r, 1) ELSE Drop(r, 5)
    IN  [head |-> IF bol THEN {"^"} ELSE GroupAlts(SubSeq(r, 1, 5)),
         items |-> ReItems(SubSeq(rest, 1, Len(rest) - 5)),
         tail |-> GroupAlts(SubSeq(rest, Len(rest) - 4, Len(rest)))]

\* the positions (number of characters consumed) at which items k.. can end
\* when they start matching s after position pos
RECURSIVE MatchEnds(_, _, _, _)
MatchEnds(items, k, s, pos) ==
    IF k > Len(items) THEN {pos}
    ELSE LET it == items[k] IN
         CASE it.t = "lit" ->
                IF pos < Len(s) /\ s[pos + 1] = it.c
                THEN MatchEnds(items, k + 1, s, pos + 1) ELSE {}
           [] it.t = "nosep" ->
                IF pos < Len(s) /\ s[pos + 1] # "/"
                THEN MatchEnds(items, k + 1, s, pos + 1) ELSE {}
           [] it.t = "nosepstar" ->
                MatchEnds(items, k + 1, s, pos)
                \cup (IF pos < Len(s) /\ s[pos + 1] # "/"
                      THEN MatchEnds(items, k, s, pos + 1) ELSE {})
           [] it.t = "any" ->
                MatchEnds(items, k + 1, s, pos)
                \cup (IF pos < Len(s) /\ s[pos + 1] # "\n"
                      THEN MatchEnds(items, k, s, pos + 1) ELSE {})

\* $ matches at the end of the string and before a newline that ends it
AtEol(s, pos) == pos = Len(s) \/ (pos = Len(s) - 1 /\ s[Len(s)] = "\n")

\* Pattern.search(s) is not None: the expression matches somewhere in s
re_search(regex, s) ==
    LET re == re_compile(regex)
        \* positions after the leading group: ^ holds at the start of s only
        starts == (IF "^" \in re.head THEN {0} ELSE {})
                  \cup (IF "/" \in re.head THEN {p \in 1..Len(s) : s[p] = "/"} ELSE {})
    IN  \E st \in starts : \E e \in MatchEnds(re.items, 1, s, st) :
            \/ "$" \in re.tail /\ AtEol(s, e)
            \/ "/" \in re.tail /\ e < Len(s) /\ s[e + 1] = "/"

(***************************************************************************)
(* class GitIgnorePattern                                                  *)
(***************************************************************************)
\* a translation whose trailing group accepts the end of the string only
pattern_to_regex_eol_only(pattern, is_absolute, is_dir_only) ==
    LET p0 == re_escape(pattern)
        p1 == Replace(p0, <<"\\", "*", "\\", "*">>, ReAny)
        p2 == Replace(p1, <<"\\", "*">>, ReNoSepStar)
        p3 == Replace(p2, <<"\\", "?">>, ReNoSep)
    IN  (IF is_absolute THEN ReBol ELSE ReBolOrSep) \o p3 \o ReEolOnly

pattern_to_regex(pattern, is_absolute, is_dir_only) ==
    LET p0 == re_escape(pattern)
        p1 == Replace(p0, <<"\\", "*", "\\", "*">>, ReAny)
        p2 == Replace(p1, <<"\\", "*">>, ReNoSepStar)
        p3 == Replace(p2, <<"\\", "?">>, ReNoSep)
        p4 == (IF is_absolute THEN ReBol ELSE ReBolOrSep) \o p3
    IN  IF is_dir_only THEN p4 \o ReSepOrEol ELSE p4 \o ReEolOrSep

\* a compiler that drops the leading '/' without anchoring the expression
GitIgnorePattern_never_anchored(line) ==
    LET is_negated == StartsWith(line, <<"!">>)
        p1 == IF is_negated THEN Tail(line) ELSE line
        is_dir_only == EndsWith(p1, <<"/">>)
        p2 == IF is_dir_only THEN SubSeq(p1, 1, Len(p1) - 1) ELSE p1
        is_absolute == StartsWith(p2, <<"/">>)
        p3 == IF is_absolute THEN Tail(p2) ELSE p2
    IN  [pattern |-> line,
         is_negated |-> is_negated,
         is_dir_only |-> is_dir_only,
         is_absolute |-> is_absolute,
         regex_pattern |-> pattern_to_regex(p3, FALSE, is_dir_only)]

GitIgnorePattern(line) ==
    LET is_negated == StartsWith(line, <<"!">>)
        p1 == IF is_negated THEN Tail(line) ELSE line
        is_dir_only == EndsWith(p1, <<"/">>)
        p2 == IF is_dir_only THEN SubSeq(p1, 1, Len(p1) - 1) ELSE p1
        is_absolute == StartsWith(p2, <<"/">>)
        p3 == IF is_absolute THEN Tail(p2) ELSE p2
    IN  [pattern |-> line,
         is_negated |-> is_negated,
         is_dir_only |-> is_dir_only,
         is_absolute |-> is_absolute,
         regex_pattern |-> pattern_to_regex(p3, is_absolute, is_dir_only)]

\* a matcher without the directory-only test
matches_ignoring_kind(pat, path, is_dir) == re_search(pat.regex_pattern, path)

matches(pat, path, is_dir) ==
    IF pat.is_dir_only /\ ~is_dir THEN FALSE
    ELSE re_search(pat.regex_pattern, path)

(***************************************************************************)
(* The file system.  A tree maps the absolute path of each directory to    *)
(* its listing, in the order scandir returns the entries, and the absolute *)
(* path of each file to its bytes and whether it can be opened; `denied`   *)
(* holds the directories that cannot be listed.  A byte is                 *)
(* an ASCII character or one of NUL, xC3, xA9 (xC3 xA9 is a valid UTF-8    *)
(* sequence) and xFF (valid nowhere in UTF-8).                             *)
(***************************************************************************)
\* the end-to-end scenario: .gitignore, a.log, important.log, b.txt, node_modules/x.js
TreeScenario ==
    [dirs |->
        <<"/", "r">> :>
            [dirnames |-> <<<<"n", "o", "d", "e", "_", "m", "o", "d", "u", "l", "e", "s">>>>,
             filenames |-> <<<<".", "g", "i", "t", "i", "g", "n", "o", "r", "e">>, <<"a", ".", "l", "o", "g">>, <<"i", "m", "p", "o", "r", "t", "a", "n", "t", ".", "l", "o", "g">>, <<"b", ".", "t", "x", "t">>>>] @@
        <<"/", "r", "/", "n", "o", "d", "e", "_", "m", "o", "d", "u", "l", "e", "s">> :>
            [dirnames |-> <<>>,
             filenames |-> <<<<"x", ".", "j", "s">>>>],
     files |->
        <<"/", "r", "/", ".", "g", "i", "t", "i", "g", "n", "o", "r", "e">> :>
            [readable |-> TRUE, data |-> <<"*", ".", "l", "o", "g", "\n", "!", "i", "m", "p", "o", "r", "t", "a", "n", "t", ".", "l", "o", "g", "\n", "n", "o", "d", "e", "_", "m", "o", "d", "u", "l", "e", "s", "/", "\n">>] @@
        <<"/", "r", "/", "a", ".", "l", "o", "g">> :>
            [readable |-> TRUE, data |-> <<"a">>] @@
        <<"/", "r", "/", "i", "m", "p", "o", "r", "t", "a", "n", "t", ".", "l", "o", "g">> :>
            [readable |-> TRUE, data |-> <<"i">>] @@
        <<"/", "r", "/", "b", ".", "t", "x", "t">> :>
            [readable |-> TRUE, data |-> <<"b">>] @@
        <<"/", "r", "/", "n", "o", "d", "e", "_", "m", "o", "d", "u", "l", "e", "s", "/", "x", ".", "j", "s">> :>
            [readable |-> TRUE, data |-> <<"x">>],
     denied |-> {}]

\* hidden, ignored and dependency directories next to each other, a nested .gitignore
TreePrune ==
    [dirs |->
        <<"/", "r">> :>
            [dirnames |-> <<<<".", "h">>, <<"l", "o", "g", "s">>, <<"s", "r", "c">>>>,
             filenames |-> <<<<".", "g", "i", "t", "i", "g", "n", "o", "r", "e">>, <<"t">>>>] @@
        <<"/", "r", "/", ".", "h">> :>
            [dirnames |-> <<>>,
             filenames |-> <<<<"c">>>>] @@
        <<"/", "r", "/", "l", "o", "g", "s">> :>
            [dirnames |-> <<<<"d">>>>,
             filenames |-> <<<<"k", "e", "e", "p", ".", "t", "x", "t">>>>] @@
        <<"/", "r", "/", "l", "o", "g", "s", "/", "d">> :>
            [dirnames |-> <<>>,
             filenames |-> <<<<"k">>>>] @@
        <<"/", "r", "/", "s", "r", "c">> :>
            [dirnames |-> <<<<"b", "i", "n">>, <<"l", "i", "b">>>>,
             filenames |-> <<<<".", "g", "i", "t", "i", "g", "n", "o", "r", "e">>, <<"m", ".", "p", "y">>>>] @@
        <<"/", "r", "/", "s", "r", "c", "/", "b", "i", "n">> :>
            [dirnames |-> <<>>,
             filenames |-> <<<<"o">>>>] @@
        <<"/", "r", "/", "s", "r", "c", "/", "l", "i", "b">> :>
            [dirnames |-> <<>>,
             filenames |-> <<<<"p", ".", "p", "y">>>>],
     files |->
        <<"/", "r", "/", ".", "g", "i", "t", "i", "g", "n", "o", "r", "e">> :>
            [readable |-> TRUE, data |-> <<"#", " ", "c", "\n", "\n", " ", "l", "o", "g", "s", " ", "\n", "!", "l", "o", "g", "s", "/", "k", "e", "e", "p", ".", "t", "x", "t", "\n">>] @@
        <<"/", "r", "/", "t">> :>
            [readable |-> TRUE, data |-> <<"t">>] @@
        <<"/", "r", "/", ".", "h", "/", "c">> :>
            [readable |-> TRUE, data |-> <<"c">>] @@
        <<"/", "r", "/", "l", "o", "g", "s", "/", "k", "e", "e", "p", ".", "t", "x", "t">> :>
            [readable |-> TRUE, data |-> <<"k">>] @@
        <<"/", "r", "/", "l", "o", "g", "s", "/", "d", "/", "k">> :>
            [readable |-> TRUE, data |-> <<"k">>] @@
        <<"/", "r", "/", "s", "r", "c", "/", ".", "g", "i", "t", "i", "g", "n", "o", "r", "e">> :>
            [readable |-> TRUE, data |-> <<"m", ".", "p", "y", "\n">>] @@
        <<"/", "r", "/", "s", "r", "c", "/", "m", ".", "p", "y">> :>
            [readable |-> TRUE, data |-> <<"m">>] @@
        <<"/", "r", "/", "s", "r", "c", "/", "b", "i", "n", "/", "o">> :>
            [readable |-> TRUE, data |-> <<"o">>] @@
        <<"/", "r", "/", "s", "r", "c", "/", "l", "i", "b", "/", "p", ".", "p", "y">> :>
            [readable |-> TRUE, data |-> <<"p">>],
     denied |-> {}]

\* no .gitignore; binary, undecodable and unreadable files
TreeBinary ==
    [dirs |->
        <<"/", "r">> :>
            [dirnames |-> <<<<"s">>>>,
             filenames |-> <<<<"n">>, <<"u">>, <<"e">>, <<"f">>, <<"z">>>>] @@
        <<"/", "r", "/", "s">> :>
            [dirnames |-> <<>>,
             filenames |-> <<<<"v">>, <<"w">>>>],
     files |->
        <<"/", "r", "/", "n">> :>
            [readable |-> TRUE, data |-> <<"a", "NUL", "b">>] @@
        <<"/", "r", "/", "u">> :>
            [readable |-> FALSE, data |-> <<>>] @@
        <<"/", "r", "/", "e">> :>
            [readable |-> TRUE, data |-> <<"xC3", "xA9">>] @@
        <<"/", "r", "/", "f">> :>
            [readable |-> TRUE, data |-> <<"a", "xFF">>] @@
        <<"/", "r", "/", "z">> :>
            [readable |-> TRUE, data |-> <<"z">>] @@
        <<"/", "r", "/", "s", "/", "v">> :>
            [readable |-> FALSE, data |-> <<>>] @@
        <<"/", "r", "/", "s", "/", "w">> :>
            [readable |-> TRUE, data |-> <<"xC3">>],
     denied |-> {}]

\* no .gitignore; /r/gone was listed by its parent and has vanished since, /r/locked
\* cannot be listed (permission denied), /r/ok behind them can
TreeErrors ==
    [dirs |->
        <<"/", "r">> :>
            [dirnames |-> <<<<"g", "o", "n", "e">>, <<"l", "o", "c", "k", "e", "d">>, <<"o", "k">>>>,
             filenames |-> <<<<"a">>>>] @@
        <<"/", "r", "/", "l", "o", "c", "k", "e", "d">> :>
            [dirnames |-> <<<<"i", "n">>>>,
             filenames |-> <<<<"x">>>>] @@
        <<"/", "r", "/", "l", "o", "c", "k", "e", "d", "/", "i", "n">> :>
            [dirnames |-> <<>>,
             filenames |-> <<<<"y">>>>] @@
        <<"/", "r", "/", "o", "k">> :>
            [dirnames |-> <<>>,
             filenames |-> <<<<"b">>>>],
     files |->
        <<"/", "r", "/", "a">> :>
            [readable |-> TRUE, data |-> <<"a">>] @@
        <<"/", "r", "/", "l", "o", "c", "k", "e", "d", "/", "x">> :>
            [readable |-> TRUE, data |-> <<"x">>] @@
        <<"/", "r", "/", "l", "o", "c", "k", "e", "d", "/", "i", "n", "/", "y">> :>
            [readable |-> TRUE, data |-> <<"y">>] @@
        <<"/", "r", "/", "o", "k", "/", "b">> :>
            [readable |-> TRUE, data |-> <<"b">>],
     denied |-> {<<"/", "r", "/", "l", "o", "c", "k", "e", "d">>}]

Trees == {TreeScenario, TreePrune, TreeBinary, TreeErrors}

\* the root_dir arguments: the tree's root as an absolute path, and as '.'
RootDirs == {<<"/", "r">>, <<".">>}

Configs ==
    [show_hidden : BOOLEAN, show_deps : BOOLEAN,
     respect_gitignore : BOOLEAN, binary_check : BOOLEAN]

COMMON_IGNORE_DIRS ==
    {<<".", "b", "u", "n", "d", "l", "e">>,
     <<".", "c", "a", "c", "h", "e">>,
     <<".", "e", "g", "g", "s">>,
     <<".", "e", "n", "v">>,
     <<".", "g", "r", "a", "d", "l", "e">>,
     <<".", "m", "v", "n">>,
     <<".", "m", "y", "p", "y", "_", "c", "a", "c", "h", "e">>,
     <<".", "n", "e", "x", "t">>,
     <<".", "n", "u", "x", "t">>,
     <<".", "p", "y", "t", "e", "s", "t", "_", "c", "a", "c", "h", "e">>,
     <<".", "s", "a", "s", "s", "-", "c", "a", "c", "h", "e">>,
     <<".", "t", "o", "x">>,
     <<".", "v", "e", "n", "v">>,
     <<"_", "_", "p", "y", "c", "a", "c", "h", "e", "_", "_">>,
     <<"b", "i", "n">>,
     <<"b", "u", "i", "l", "d">>,
     <<"c", "a", "c", "h", "e">>,
     <<"c", "l", "a", "s", "s", "e", "s">>,
     <<"c", "o", "m", "p", "o", "s", "e", "r", ".", "p", "h", "a", "r">>,
     <<"c", "o", "v", "e", "r", "a", "g", "e">>,
     <<"d", "i", "s", "t">>,
     <<"e", "g", "g", "-", "i", "n", "f", "o">>,
     <<"e", "n", "v">>,
     <<"l", "o", "g">>,
     <<"m", "i", "g", "r", "a", "t", "i", "o", "n", "s">>,
     <<"n", "o", "d", "e", "_", "m", "o", "d", "u", "l", "e", "s">>,
     <<"o", "b", "j">>,
     <<"o", "u", "t">>,
     <<"p", "a", "c", "k", "a", "g", "e", "s">>,
     <<"s", "i", "t", "e", "-", "p", "a", "c", "k", "a", "g", "e", "s">>,
     <<"s", "t", "a", "t", "i", "c", "f", "i", "l", "e", "s">>,
     <<"t", "a", "r", "g", "e", "t">>,
     <<"t", "m", "p">>,
     <<"v", "e", "n", "d", "o", "r">>,
     <<"v", "e", "n", "v">>}

(***************************************************************************)
(* parse_gitignore, is_ignored_by_gitignore                                *)
(***************************************************************************)
\* the for loop of parse_gitignore over the lines of the file
RECURSIVE ParseLines(_)
ParseLines(lines) ==
    IF lines = <<>> THEN <<>>
    ELSE LET line == Strip(Head(lines)) IN
         IF line = <<>> \/ StartsWith(line, <<"#">>) THEN ParseLines(Tail(lines))
         ELSE <<GitIgnorePattern(line)>> \o ParseLines(Tail(lines))

\* the lines a text file iterates over, each with the newline that ends it
RECURSIVE SplitLines(_)
SplitLines(data) ==
    IF data = <<>> THEN <<>>
    ELSE IF \A p \in 1..Len(data) : data[p] # "\n" THEN <<data>>
    ELSE LET p == CHOOSE q \in 1..Len(data) :
                      data[q] = "\n" /\ \A r \in 1..(q - 1) : data[r] # "\n"
         IN  <<SubSeq(data, 1, p)>> \o SplitLines(Drop(data, p))

\* open(path) raises OSError: the file is missing or not readable
OpenFails(file_path) ==
    \/ abspath(file_path) \notin DOMAIN tree.files
    \/ ~tree.files[abspath(file_path)].readable

\* the with block of parse_gitignore: open raises, or the lines are compiled
ReadPatterns(gitignore_path) ==
    IF OpenFails(gitignore_path)
    THEN [raised |-> TRUE, value |-> <<>>]
    ELSE [raised |-> FALSE,
          value |-> ParseLines(SplitLines(tree.files[abspath(gitignore_path)].data))]

\* a parse_gitignore that opens the file without asking whether it exists
parse_gitignore_unchecked(gitignore_path) == ReadPatterns(gitignore_path)

\* os.path.exists(gitignore_path) decides between [] and the parsed lines
parse_gitignore(gitignore_path) ==
    IF abspath(gitignore_path) \notin DOMAIN tree.files
    THEN [raised |-> FALSE, value |-> <<>>]
    ELSE ReadPatterns(gitignore_path)

\* the for loop of is_ignored_by_gitignore, from pattern k on
RECURSIVE IgnoredLoop(_, _, _, _, _)
IgnoredLoop(patterns, k, rel_path, is_dir, ignored) ==
    IF k > Len(patterns) THEN ignored
    ELSE IgnoredLoop(patterns, k + 1, rel_path, is_dir,
                     IF matches(patterns[k], rel_path, is_dir)
                     THEN ~patterns[k].is_negated ELSE ignored)

\* a loop that stops at the first matching pattern
RECURSIVE IgnoredLoopFirstMatch(_, _, _, _, _)
IgnoredLoopFirstMatch(patterns, k, rel_path, is_dir, ignored) ==
    IF k > Len(patterns) THEN ignored
    ELSE IF matches(patterns[k], rel_path, is_dir) THEN ~patterns[k].is_negated
    ELSE IgnoredLoopFirstMatch(patterns, k + 1, rel_path, is_dir, ignored)

is_ignored_by_gitignore_first_match(rel_path, is_dir, gitignore_patterns) ==
    IF gitignore_patterns = <<>> THEN FALSE
    ELSE IgnoredLoopFirstMatch(gitignore_patterns, 1, rel_path, is_dir, FALSE)

is_ignored_by_gitignore(rel_path, is_dir, gitignore_patterns) ==
    IF gitignore_patterns = <<>> THEN FALSE
    ELSE IgnoredLoop(gitignore_patterns, 1, rel_path, is_dir, FALSE)

(***************************************************************************)
(* is_binary_file                                                          *)
(***************************************************************************)
\* the default of the sample_size parameter
SampleSize == 8192

Utf8Lead2 == {"xC3"}
Utf8Continuation == {"xA9"}
Utf8Invalid == {"xFF"}

\* sample.decode('utf-8') does not raise UnicodeDecodeError
RECURSIVE Utf8Decodes(_)
Utf8Decodes(sample) ==
    IF sample = <<>> THEN TRUE
    ELSE IF Head(sample) \in Utf8Lead2
         THEN Len(sample) >= 2 /\ sample[2] \in Utf8Continuation
              /\ Utf8Decodes(Drop(sample, 2))
    ELSE IF Head(sample) \in Utf8Continuation \cup Utf8Invalid THEN FALSE
    ELSE Utf8Decodes(Tail(sample))

\* the body of the try block, for a file that opens
BinaryVerdict(file_path, sample_size) ==
    LET data == tree.files[abspath(file_path)].data
        sample == SubSeq(data, 1, IF Len(data) < sample_size THEN Len(data) ELSE sample_size)
    IN  IF \E k \in 1..Len(sample) : sample[k] = "NUL" THEN TRUE
        ELSE ~Utf8Decodes(sample)

\* a detector without the except clause: the OSError propagates
is_binary_file_no_except(file_path, sample_size) ==
    IF OpenFails(file_path) THEN [raised |-> TRUE, value |-> FALSE]
    ELSE [raised |-> FALSE, value |-> BinaryVerdict(file_path, sample_size)]

\* the returned value, and whether an exception left the function instead
is_binary_file(file_path, sample_size) ==
    IF OpenFails(file_path) THEN [raised |-> FALSE, value |-> TRUE]
    ELSE [raised |-> FALSE, value |-> BinaryVerdict(file_path, sample_size)]

(***************************************************************************)
(* walk_filtered_files: a generator.  Each generator object has a frame:   *)
(* its position (pc), its locals, and, as history, the directories it has  *)
(* listed, the files it has opened and the entries it has yielded.         *)
(*   none       no generator object in this slot                           *)
(*   created    walk_filtered_files(...) was called, the body has not run  *)
(*   load       running: about to load the patterns                        *)
(*   walk       running: os.walk is about to produce its next directory    *)
(*   dirs       running: in the while loop over dirnames                   *)
(*   files      running: in the for loop over filenames                    *)
(*   suspended  at the yield, the consumer holds the entry `out`           *)
(*   finished   StopIteration: the walk ran to its end                     *)
(*   closed     the consumer dropped the generator before its end          *)
(*   raised     an exception left the generator                            *)
(* `failed` holds, as history, the directories whose listing failed,       *)
(* `parsed` the paths handed to parse_gitignore, and `respect_gitignore`   *)
(* the value of that argument the generator was called with.               *)
(***************************************************************************)
NoCall == [op |-> "none"]

IdleFrame ==
    [pc |-> "none", gitignore_patterns |-> <<>>, stack |-> <<>>, dirpath |-> <<>>,
     scanned |-> <<>>, dirnames |-> <<>>, filenames |-> <<>>, i |-> 0, j |-> 0,
     out |-> <<>>, yielded |-> {}, listed |-> <<>>, reads |-> <<>>, failed |-> <<>>,
     respect_gitignore |-> FALSE, parsed |-> <<>>]

NewFrame == [IdleFrame EXCEPT !.pc = "created"]

Running(w) == walker[w].pc \in {"load", "walk", "dirs", "files"}

\* the program is single-threaded: the consumer acts only while no generator runs
ConsumerHasControl == \A v \in DOMAIN walker : ~Running(v)

\* os.scandir(top) raises OSError: the directory is gone or may not be listed
scandir_fails(top) ==
    \/ abspath(top) \notin DOMAIN tree.dirs
    \/ abspath(top) \in tree.denied

\* a walk that lets the OSError of scandir leave the generator
AfterScandirError_raise(frame) ==
    [frame EXCEPT !.pc = "raised", !.failed = Append(@, Head(frame.stack))]

\* os.walk with onerror=None: the error is dropped and the directory skipped
AfterScandirError(frame) ==
    [frame EXCEPT !.stack = Tail(@), !.failed = Append(@, Head(frame.stack))]

\* a walk that also honours the .gitignore of the directory it stands in
PatternsInEffect_nested(frame, dirpath) ==
    frame.gitignore_patterns
        \o parse_gitignore(join(dirpath, <<".", "g", "i", "t", "i", "g", "n", "o", "r", "e">>)).value

\* the gitignore_patterns local read in the loops over dirpath's entries: the
\* list bound before os.walk, whatever the directory
PatternsInEffect(frame, dirpath) == frame.gitignore_patterns

\* dirnames.pop(i)
Pop(list, i) == SubSeq(list, 1, i) \o SubSeq(list, i + 2, Len(list))

\* a while loop that leaves the gitignore verdict to the files
DirExcluded_by_name_only(dirname, rel_path, gitignore_patterns) ==
    \/ StartsWith(dirname, <<".">>) /\ ~config.show_hidden
    \/ dirname \in COMMON_IGNORE_DIRS /\ ~config.show_deps

\* the three tests of the while loop that remove a directory from dirnames
DirExcluded(dirname, rel_path, gitignore_patterns) ==
    \/ StartsWith(dirname, <<".">>) /\ ~config.show_hidden
    \/ dirname \in COMMON_IGNORE_DIRS /\ ~config.show_deps
    \/ /\ config.respect_gitignore
       /\ gitignore_patterns # <<>>
       /\ is_ignored_by_gitignore(rel_path, TRUE, gitignore_patterns)

\* a walk that descends into the list as scandir returned it
WalkDirs_unfiltered(frame) == frame.scanned

\* the list os.walk descends into after the loop body: the list object it
\* yielded, which the while loop has mutated in place
WalkDirs(frame) == frame.dirnames

\* a filter that remembers, across invocations, the files already yielded
FileSkipped_shared_seen(filename, rel_path, gitignore_patterns) ==
    \/ StartsWith(filename, <<".">>) /\ ~config.show_hidden
    \/ /\ config.respect_gitignore
       /\ gitignore_patterns # <<>>
       /\ is_ignored_by_gitignore(rel_path, FALSE, gitignore_patterns)
    \/ \E seen \in {results[k] : k \in 1..Len(results)}
                      \cup {walker[v].yielded : v \in DOMAIN walker} :
           \E e \in seen : e[2] = rel_path

\* the two tests of the for loop made before the file is opened
FileSkipped(filename, rel_path, gitignore_patterns) ==
    \/ StartsWith(filename, <<".">>) /\ ~config.show_hidden
    \/ /\ config.respect_gitignore
       /\ gitignore_patterns # <<>>
       /\ is_ignored_by_gitignore(rel_path, FALSE, gitignore_patterns)

\* a loop that checks every remaining file of the directory before it yields
BinaryChecked_ahead(dirpath, filenames, j) ==
    [k \in 1..(Len(filenames) - j) |-> join(dirpath, filenames[j + k])]

\* the files is_binary_file is called on in one iteration of the for loop
BinaryChecked(dirpath, filenames, j) == <<join(dirpath, filenames[j + 1])>>

\* gen = walk_filtered_files(root_dir, ...): a new generator object
Call(w) ==
    /\ ConsumerHasControl
    /\ walker[w].pc \in {"none", "finished", "closed", "raised"}
    /\ started < MaxWalks
    /\ walker' = [walker EXCEPT ![w] =
           [NewFrame EXCEPT !.respect_gitignore = config.respect_gitignore]]
    /\ started' = started + 1
    /\ UNCHANGED <<call, tree, root_dir, config, results>>

\* next(gen): the body starts, or resumes behind the yield
Pull(w) ==
    /\ ConsumerHasControl
    /\ walker[w].pc \in {"created", "suspended"}
    /\ walker' = [walker EXCEPT ![w] =
           IF @.pc = "created" THEN [@ EXCEPT !.pc = "load"]
           ELSE [@ EXCEPT !.pc = "files", !.j = @ + 1, !.out = <<>>]]
    /\ UNCHANGED <<call, tree, root_dir, config, results, started>>

\* the consumer stops iterating: the generator is closed where it stands
Abandon(w) ==
    /\ ConsumerHasControl
    /\ walker[w].pc \in {"created", "suspended"}
    /\ walker' = [walker EXCEPT ![w] = [@ EXCEPT !.pc = "closed", !.out = <<>>]]
    /\ UNCHANGED <<call, tree, root_dir, config, results, started>>

\* lines 153-156, and os.walk(root_dir) starting with root_dir pending
LoadGitignore(w) ==
    /\ walker[w].pc = "load"
    /\ LET gitignore_path == join(root_dir, <<".", "g", "i", "t", "i", "g", "n", "o", "r", "e">>)
           parsed == IF walker[w].respect_gitignore
                     THEN parse_gitignore(gitignore_path)
                     ELSE [raised |-> FALSE, value |-> <<>>]
           paths == IF walker[w].respect_gitignore THEN <<gitignore_path>> ELSE <<>>
       IN  walker' = [walker EXCEPT ![w] =
               IF parsed.raised
               THEN [@ EXCEPT !.pc = "raised", !.parsed = @ \o paths]
               ELSE [@ EXCEPT !.gitignore_patterns = parsed.value,
                              !.parsed = @ \o paths,
                              !.stack = <<root_dir>>,
                              !.pc = "walk"]]
    /\ UNCHANGED <<call, tree, root_dir, config, results, started>>

\* os.walk produces its next directory: it lists the first pending directory;
\* with nothing pending the for loop ends and so does the generator
WalkNext(w) ==
    /\ walker[w].pc = "walk"
    /\ LET f == walker[w] IN
       IF f.stack = <<>>
       THEN /\ walker' = [walker EXCEPT ![w] = [@ EXCEPT !.pc = "finished"]]
            /\ results' = Append(results, f.yielded)
       ELSE LET top == Head(f.stack) IN
            /\ results' = results
            /\ IF scandir_fails(top)
               THEN walker' = [walker EXCEPT ![w] = AfterScandirError(f)]
               ELSE walker' = [walker EXCEPT ![w] =
                        [@ EXCEPT !.stack = Tail(f.stack),
                                  !.dirpath = top,
                                  !.scanned = tree.dirs[abspath(top)].dirnames,
                                  !.dirnames = tree.dirs[abspath(top)].dirnames,
                                  !.filenames = tree.dirs[abspath(top)].filenames,
                                  !.listed = Append(f.listed, top),
                                  !.i = 0,
                                  !.pc = "dirs"]]
    /\ UNCHANGED <<call, tree, root_dir, config, started>>

\* one iteration of the while loop over dirnames (lines 161-181)
FilterDir(w) ==
    /\ walker[w].pc = "dirs"
    /\ LET f == walker[w] IN
       IF f.i < Len(f.dirnames)
       THEN LET dirname == f.dirnames[f.i + 1]
                dir_path == join(f.dirpath, dirname)
                rel_path == relpath(dir_path, root_dir)
            IN  IF DirExcluded(dirname, rel_path, PatternsInEffect(f, f.dirpath))
                THEN walker' = [walker EXCEPT ![w] =
                         [@ EXCEPT !.dirnames = Pop(f.dirnames, f.i)]]
                ELSE walker' = [walker EXCEPT ![w] = [@ EXCEPT !.i = f.i + 1]]
       ELSE walker' = [walker EXCEPT ![w] = [@ EXCEPT !.pc = "files", !.j = 0]]
    /\ UNCHANGED <<call, tree, root_dir, config, results, started>>

\* one iteration of the for loop over filenames (lines 184-200); behind the
\* last file os.walk resumes and queues the directories left in dirnames
ProcessFile(w) ==
    /\ walker[w].pc = "files"
    /\ LET f == walker[w] IN
       IF f.j < Len(f.filenames)
       THEN LET filename == f.filenames[f.j + 1]
                file_path == join(f.dirpath, filename)
                rel_path == relpath(file_path, root_dir)
                binary == is_binary_file(file_path, SampleSize)
            IN  IF FileSkipped(filename, rel_path, PatternsInEffect(f, f.dirpath))
                THEN walker' = [walker EXCEPT ![w] = [@ EXCEPT !.j = f.j + 1]]
                ELSE IF ~config.binary_check
                THEN walker' = [walker EXCEPT ![w] =
                         [@ EXCEPT !.pc = "suspended",
                                   !.out = <<file_path, rel_path>>,
                                   !.yielded = @ \cup {<<file_path, rel_path>>}]]
                ELSE IF binary.raised
                THEN walker' = [walker EXCEPT ![w] =
                         [@ EXCEPT !.pc = "raised",
                                   !.reads = @ \o BinaryChecked(f.dirpath, f.filenames, f.j)]]
                ELSE IF binary.value
                THEN walker' = [walker EXCEPT ![w] =
                         [@ EXCEPT !.j = f.j + 1,
                                   !.reads = @ \o BinaryChecked(f.dirpath, f.filenames, f.j)]]
                ELSE walker' = [walker EXCEPT ![w] =
                         [@ EXCEPT !.pc = "suspended",
                                   !.out = <<file_path, rel_path>>,
                                   !.yielded = @ \cup {<<file_path, rel_path>>},
                                   !.reads = @ \o BinaryChecked(f.dirpath, f.filenames, f.j)]]
       ELSE walker' = [walker EXCEPT ![w] =
                [@ EXCEPT !.stack = [k \in 1..Len(WalkDirs(f)) |->
                                        join(f.dirpath, WalkDirs(f)[k])] \o f.stack,
                          !.pc = "walk"]]
    /\ UNCHANGED <<call, tree, root_dir, config, results, started>>

InitWalk(slots) ==
    /\ call = NoCall
    /\ tree \in Trees
    /\ root_dir \in RootDirs
    /\ config \in Configs
    /\ walker = [w \in slots |-> IdleFrame]
    /\ results = <<>>
    /\ started = 0

Init == InitWalk({1})

InitInterleaved == InitWalk({1, 2})

Next ==
    \/ \E w \in DOMAIN walker : Call(w)
    \/ \E w \in DOMAIN walker : Pull(w)
    \/ \E w \in DOMAIN walker : Abandon(w)
    \/ \E w \in DOMAIN walker : LoadGitignore(w)
    \/ \E w \in DOMAIN walker : WalkNext(w)
    \/ \E w \in DOMAIN walker : FilterDir(w)
    \/ \E w \in DOMAIN walker : ProcessFile(w)

\* one generator at a time, restarted after it ends or is dropped
Spec == Init /\ [][Next]_vars

\* two generators alive at once, pulled in any order
SpecInterleaved == InitInterleaved /\ [][Next]_vars

\* between two calls the caller passes the other value of respect_gitignore
Retoggle ==
    /\ \A v \in DOMAIN walker : walker[v].pc \in {"none", "finished", "closed", "raised"}
    /\ started < MaxWalks
    /\ config' = [config EXCEPT !.respect_gitignore = ~@]
    /\ UNCHANGED <<call, tree, root_dir, walker, results, started>>

\* a call made while no other generator is alive
CallInTurn(w) ==
    /\ \A v \in DOMAIN walker : walker[v].pc \in {"none", "finished", "closed", "raised"}
    /\ Call(w)

NextToggle ==
    \/ \E w \in DOMAIN walker : CallInTurn(w)
    \/ \E w \in DOMAIN walker : Pull(w)
    \/ \E w \in DOMAIN walker : Abandon(w)
    \/ \E w \in DOMAIN walker : LoadGitignore(w)
    \/ \E w \in DOMAIN walker : WalkNext(w)
    \/ \E w \in DOMAIN walker : FilterDir(w)
    \/ \E w \in DOMAIN walker : ProcessFile(w)
    \/ Retoggle

\* two generator objects used one after the other, each called with either
\* value of respect_gitignore
SpecToggle == InitInterleaved /\ [][NextToggle]_vars

(***************************************************************************)
(* Properties of the walk (checked under Spec and SpecInterleaved).        *)
(***************************************************************************)
Range(q) == {q[k] : k \in 1..Len(q)}

\* the root of the tree as an absolute path
RootAbs == abspath(root_dir)

\* the path of a directory or file of the tree below the root, relative to it
RelOf(p) == Drop(p, Len(RootAbs) + 1)

\* the last segment of a path
NameOf(p) == LET segs == Segments(p) IN segs[Len(segs)]

\* path p lies beneath directory d of the tree, at any depth
Beneath(p, d) == StartsWith(abspath(p), d \o <<"/">>)

\* the pattern list of the root's .gitignore
RootGitignore == RootAbs \o <<"/", ".", "g", "i", "t", "i", "g", "n", "o", "r", "e">>

RootPatterns ==
    IF RootGitignore \in DOMAIN tree.files
    THEN ParseLines(SplitLines(tree.files[RootGitignore].data))
    ELSE <<>>

\* a subdirectory d of the tree is excluded: hidden, dependency-named or ignored
SubdirExcluded(d) ==
    \/ Head(NameOf(d)) = "." /\ ~config.show_hidden
    \/ NameOf(d) \in COMMON_IGNORE_DIRS /\ ~config.show_deps
    \/ config.respect_gitignore /\ is_ignored_by_gitignore(RelOf(d), TRUE, RootPatterns)

Subdirs == DOMAIN tree.dirs \ {RootAbs}

\* the directories a walk visits: neither they nor a directory above them is
\* excluded or fails to be listed
VisitedDirs ==
    {d \in DOMAIN tree.dirs :
        /\ \A a \in Subdirs : (a = d \/ Beneath(d, a)) => ~SubdirExcluded(a)
        /\ \A a \in tree.denied : ~(a = d \/ Beneath(d, a))}

\* a file is binary for the detector: it cannot be read, or its content says so
FileIsBinary(f) == OpenFails(f) \/ BinaryVerdict(f, SampleSize)

\* the files of the tree that pass the filters, by absolute path
EligibleFiles ==
    {f \in DOMAIN tree.files :
        /\ \E d \in VisitedDirs : \E k \in 1..Len(tree.dirs[d].filenames) :
               f = d \o <<"/">> \o tree.dirs[d].filenames[k]
        /\ Head(NameOf(f)) = "." => config.show_hidden
        /\ config.respect_gitignore => ~is_ignored_by_gitignore(RelOf(f), FALSE, RootPatterns)
        /\ config.binary_check => ~FileIsBinary(f)}

DefaultConfig ==
    [show_hidden |-> FALSE, show_deps |-> FALSE,
     respect_gitignore |-> TRUE, binary_check |-> FALSE]

\* C2: once a subdirectory is excluded (hidden, dependency-named or ignored as
\* a directory), it leaves the pending list before any child is visited: no
\* file beneath it is ever yielded, and neither it nor a directory beneath it
\* is ever listed, queued or read.
C2_PrunedNeverVisited ==
    \A w \in DOMAIN walker : \A d \in Subdirs :
        (SubdirExcluded(d) /\ walker[w].pc # "none") =>
            LET f == walker[w] IN
            /\ \A k \in 1..Len(f.listed) :
                   abspath(f.listed[k]) # d /\ ~Beneath(f.listed[k], d)
            /\ \A k \in 1..Len(f.stack) :
                   abspath(f.stack[k]) # d /\ ~Beneath(f.stack[k], d)
            /\ \A k \in 1..Len(f.reads) : ~Beneath(f.reads[k], d)
            /\ \A e \in f.yielded : ~Beneath(e[1], d)
            /\ f.pc \in {"files", "suspended"} =>
                   \A k \in 1..Len(f.dirnames) : abspath(join(f.dirpath, f.dirnames[k])) # d

\* a walk ran to its end past an excluded directory that holds a file and a
\* subdirectory, and whose parent was listed
C2_Witness ==
    \E w \in DOMAIN walker : \E d \in Subdirs :
        /\ walker[w].pc = "finished"
        /\ SubdirExcluded(d)
        /\ tree.dirs[d].dirnames # <<>>
        /\ tree.dirs[d].filenames # <<>>
        /\ \E k \in 1..Len(walker[w].listed) :
               abspath(walker[w].listed[k]) = dirname_of(d)

\* C3: the entries a walk yields are exactly the files in visited directories
\* that are not hidden (unless show_hidden), not ignored as a non-directory
\* path (when respect_gitignore) and not binary (when binary_check), each with
\* its absolute path and its root-relative path; the scenario tree with the
\* default config yields exactly important.log and b.txt.
C3_YieldedExactly ==
    \A w \in DOMAIN walker :
        walker[w].pc = "finished" =>
            /\ walker[w].yielded = {<<f, RelOf(f)>> : f \in EligibleFiles}
            /\ (tree = TreeScenario /\ config = DefaultConfig) =>
                   {e[2] : e \in walker[w].yielded}
                       = {<<"i", "m", "p", "o", "r", "t", "a", "n", "t", ".", "l", "o", "g">>,
                          <<"b", ".", "t", "x", "t">>}

\* the part of C3 that holds for every root_dir: the files yielded, named by
\* the file they denote and by their root-relative path, are the eligible files
YieldedFilesExact ==
    \A w \in DOMAIN walker :
        walker[w].pc = "finished" =>
            {<<abspath(e[1]), e[2]>> : e \in walker[w].yielded}
                = {<<f, RelOf(f)>> : f \in EligibleFiles}

\* C8: two invocations on the unchanged tree with the same config yield the
\* same set of entries, also when another walk was abandoned part-way or the
\* walks are pulled in interleaved order; what an unfinished walk has yielded
\* so far is part of that set.
C8_SameEntries ==
    /\ \A a \in 1..Len(results) : \A b \in 1..Len(results) : results[a] = results[b]
    /\ \A w \in DOMAIN walker : \A a \in 1..Len(results) :
           walker[w].pc # "none" => walker[w].yielded \subseteq results[a]

\* two walks ran to their end with entries to yield while a third was
\* abandoned after it had yielded some of them
C8_Witness ==
    /\ Len(results) >= 2
    /\ results[1] # {}
    /\ \E w \in DOMAIN walker :
           /\ walker[w].pc = "closed"
           /\ walker[w].yielded # {}
           /\ walker[w].yielded # results[1]

\* C9: with binary_check set, a file that cannot be opened makes is_binary_file
\* return true instead of raising: the walk never raises, never yields such a
\* file, and at its end has yielded every eligible file, those behind the
\* unreadable one included.
C9_UnreadableExcluded ==
    \A w \in DOMAIN walker :
        LET f == walker[w] IN
        /\ f.pc # "raised"
        /\ config.binary_check => \A e \in f.yielded : ~OpenFails(e[1])
        /\ f.pc = "finished" =>
               {abspath(e[1]) : e \in f.yielded} = EligibleFiles

\* a finished walk opened an unreadable file and yielded a file it read later
C9_Witness ==
    \E w \in DOMAIN walker :
        LET f == walker[w] IN
        /\ f.pc = "finished"
        /\ config.binary_check
        /\ \E k \in 1..Len(f.reads) : \E m \in (k + 1)..Len(f.reads) :
               /\ OpenFails(f.reads[k])
               /\ \E e \in f.yielded : e[1] = f.reads[m]

\* C10: at each yield nothing later in traversal order has been touched: the
\* last directory listed is the one holding the entry, no pending directory
\* (queued, or still in dirnames) has been listed, the directories were listed
\* parent first, no later file of the directory has been opened, and every
\* file opened lies in a listed directory.
C10_Lazy ==
    \A w \in DOMAIN walker :
        walker[w].pc = "suspended" =>
            LET f == walker[w]
                pending == Range(f.stack)
                           \cup {join(f.dirpath, f.dirnames[k]) : k \in 1..Len(f.dirnames)}
            IN
            /\ f.out = <<join(f.dirpath, f.filenames[f.j + 1]),
                         relpath(join(f.dirpath, f.filenames[f.j + 1]), root_dir)>>
            /\ f.listed[Len(f.listed)] = f.dirpath
            /\ \A d \in pending : d \notin Range(f.listed)
            /\ \A k \in 2..Len(f.listed) :
                   \E m \in 1..(k - 1) : f.listed[m] = dirname_of(f.listed[k])
            /\ \A k \in (f.j + 2)..Len(f.filenames) :
                   join(f.dirpath, f.filenames[k]) \notin Range(f.reads)
            /\ \A r \in Range(f.reads) : dirname_of(r) \in Range(f.listed)
            /\ config.binary_check => f.reads[Len(f.reads)] = f.out[1]

\* the consumer holds an entry while a directory is still pending and a later
\* file of the same directory is still unopened
C10_Witness ==
    \E w \in DOMAIN walker :
        LET f == walker[w] IN
        /\ f.pc = "suspended"
        /\ config.binary_check
        /\ f.stack \o f.dirnames # <<>>
        /\ f.j + 1 < Len(f.filenames)
        /\ Cardinality(f.yielded) = 1

\* C11: a directory that cannot be listed during the traversal, because it has
\* vanished or because permission is denied, is skipped and the walk goes on:
\* no exception leaves the generator, nothing is listed or yielded from the
\* failing directory, and a finished walk has listed every other directory that
\* is not excluded and yielded every eligible file in them
C11_TraversalErrorsSkipped ==
    \A w \in DOMAIN walker :
        LET f == walker[w]
            got == {abspath(e[1]) : e \in f.yielded}
        IN
        /\ f.pc # "raised"
        /\ \A k \in 1..Len(f.failed) :
               /\ scandir_fails(f.failed[k])
               /\ f.failed[k] \notin Range(f.listed)
               /\ \A g \in got : ~Beneath(g, abspath(f.failed[k]))
        /\ f.pc = "finished" =>
               /\ VisitedDirs \subseteq {abspath(d) : d \in Range(f.listed)}
               /\ EligibleFiles \subseteq got

\* a finished walk met a vanished directory and a denied one, and still yielded
\* a file of a directory that it listed after both
C11_Witness ==
    \E w \in DOMAIN walker :
        LET f == walker[w] IN
        /\ f.pc = "finished"
        /\ \E k \in 1..Len(f.failed) : abspath(f.failed[k]) \notin DOMAIN tree.dirs
        /\ \E k \in 1..Len(f.failed) : abspath(f.failed[k]) \in tree.denied
        /\ \E e \in f.yielded : \E k \in 1..Len(f.listed) :
               /\ abspath(f.listed[k]) # RootAbs
               /\ dirname_of(abspath(e[1])) = abspath(f.listed[k])

\* C12: when the root has no .gitignore file, parse_gitignore returns the empty
\* list and raises nothing, and a finished walk called with respect_gitignore
\* true has yielded exactly the entries of a finished walk called with
\* respect_gitignore false on the same tree with the same other arguments
C12_MissingGitignore ==
    RootGitignore \notin DOMAIN tree.files =>
        /\ parse_gitignore(join(root_dir, <<".", "g", "i", "t", "i", "g", "n", "o", "r", "e">>))
               = [raised |-> FALSE, value |-> <<>>]
        /\ \A w \in DOMAIN walker :
               /\ walker[w].pc # "raised"
               /\ walker[w].pc \notin {"none", "created", "load"}
                      => walker[w].gitignore_patterns = <<>>
        /\ \A v, w \in DOMAIN walker :
               /\ walker[v].pc = "finished" /\ walker[v].respect_gitignore
               /\ walker[w].pc = "finished" /\ ~walker[w].respect_gitignore
               => walker[v].yielded = walker[w].yielded

\* on a tree without a root .gitignore, a walk called with respect_gitignore
\* true and one called with false have both finished, with entries yielded
C12_Witness ==
    /\ RootGitignore \notin DOMAIN tree.files
    /\ \E v, w \in DOMAIN walker :
           /\ walker[v].pc = "finished" /\ walker[v].respect_gitignore
           /\ walker[w].pc = "finished" /\ ~walker[w].respect_gitignore
           /\ Cardinality(walker[v].yielded) > 1

\* the patterns of a .gitignore lying in directory d of the tree, if there is one
NestedPatterns(d) ==
    LET path == d \o <<"/", ".", "g", "i", "t", "i", "g", "n", "o", "r", "e">> IN
    IF path \in DOMAIN tree.files
    THEN ParseLines(SplitLines(tree.files[path].data))
    ELSE <<>>

\* C13: a walk parses its patterns once, from <root>/.gitignore, before it lists
\* any directory, and the list never changes afterwards; every directory and
\* file is judged by that list and its path relative to the root, so that a
\* finished walk has listed and yielded what the root patterns alone allow,
\* whatever .gitignore files lie in subdirectories
C13_OnePatternSet ==
    \A w \in DOMAIN walker :
        LET f == walker[w]
            root_gitignore == join(root_dir, <<".", "g", "i", "t", "i", "g", "n", "o", "r", "e">>)
        IN
        /\ f.parsed \in {<<>>, <<root_gitignore>>}
        /\ f.pc \in {"none", "created", "load"} \/ ~f.respect_gitignore => f.parsed = <<>>
        /\ f.pc \in {"walk", "dirs", "files", "suspended", "finished"} =>
               /\ f.respect_gitignore => f.parsed = <<root_gitignore>>
               /\ f.gitignore_patterns = IF f.respect_gitignore THEN RootPatterns ELSE <<>>
        /\ f.listed # <<>> \/ f.yielded # {} =>
               f.gitignore_patterns = IF f.respect_gitignore THEN RootPatterns ELSE <<>>
        /\ \A e \in f.yielded : e[2] = RelOf(abspath(e[1]))
        /\ f.pc = "finished" =>
               /\ {abspath(d) : d \in Range(f.listed)} = VisitedDirs
               /\ {abspath(e[1]) : e \in f.yielded} = EligibleFiles

\* a finished walk that respects the root .gitignore has yielded a file that
\* the .gitignore of the file's own directory lists
C13_Witness ==
    \E w \in DOMAIN walker :
        LET f == walker[w] IN
        /\ f.pc = "finished"
        /\ f.respect_gitignore
        /\ RootPatterns # <<>>
        /\ \E e \in f.yielded :
               LET d == dirname_of(abspath(e[1])) IN
               /\ d # RootAbs
               /\ is_ignored_by_gitignore(e[2], FALSE, NestedPatterns(d))

\* the files of the tree lying, at any depth, beneath a subdirectory that the
\* while loop removes: hidden, dependency-named or ignored as a directory
FilesBeneathPruned ==
    {p \in DOMAIN tree.files : \E d \in Subdirs : SubdirExcluded(d) /\ Beneath(p, d)}

\* a file whose own verdict is "not ignored" thanks to a negation that matches it
RescuedByNegation(p) ==
    /\ ~is_ignored_by_gitignore(RelOf(p), FALSE, RootPatterns)
    /\ \E k \in 1..Len(RootPatterns) :
           RootPatterns[k].is_negated /\ matches(RootPatterns[k], RelOf(p), FALSE)

\* C14: pruning dominates negation.  With P = ["logs", "!logs/keep.txt"] the
\* directory logs is ignored and the file logs/keep.txt is not; yet no file
\* beneath a pruned directory is ever yielded, whatever its own verdict, and the
\* for loop that takes the per-file verdict only ever runs on the files of a
\* directory that neither is pruned nor lies beneath a pruned one
C14_PruningDominatesNegation ==
    LET P == <<GitIgnorePattern(<<"l", "o", "g", "s">>),
               GitIgnorePattern(<<"!", "l", "o", "g", "s", "/", "k", "e", "e", "p", ".", "t", "x", "t">>)>>
    IN
    /\ is_ignored_by_gitignore(<<"l", "o", "g", "s">>, TRUE, P)
    /\ ~is_ignored_by_gitignore(<<"l", "o", "g", "s", "/", "k", "e", "e", "p", ".", "t", "x", "t">>, FALSE, P)
    /\ \A w \in DOMAIN walker :
           LET f == walker[w] IN
           /\ \A e \in f.yielded : abspath(e[1]) \notin FilesBeneathPruned
           /\ \A r \in Range(f.reads) : abspath(r) \notin FilesBeneathPruned
           /\ f.pc \in {"files", "suspended"} =>
                  \A d \in Subdirs :
                      SubdirExcluded(d) =>
                          abspath(f.dirpath) # d /\ ~Beneath(f.dirpath, d)

\* a finished walk has listed the parent of a directory that the root patterns
\* ignore, and has not yielded a file beneath it that a negation rescues
C14_Witness ==
    \E w \in DOMAIN walker :
        LET f == walker[w] IN
        /\ f.pc = "finished"
        /\ f.respect_gitignore
        /\ f.yielded # {}
        /\ \E p \in FilesBeneathPruned :
               /\ RescuedByNegation(p)
               /\ Head(NameOf(p)) # "."
               /\ ~FileIsBinary(p)
               /\ p \notin {abspath(e[1]) : e \in f.yielded}
               /\ \E d \in Subdirs :
                      /\ Beneath(p, d)
                      /\ is_ignored_by_gitignore(RelOf(d), TRUE, RootPatterns)
                      /\ dirname_of(d) \in {abspath(l) : l \in Range(f.listed)}

(***************************************************************************)
(* Inputs of the pattern primitives: gitignore lines and relative paths.   *)
(***************************************************************************)
L_star_log == <<"*", ".", "l", "o", "g">>
L_not_keep_log == <<"!", "k", "e", "e", "p", ".", "l", "o", "g">>
L_not_star_log == <<"!", "*", ".", "l", "o", "g">>
L_keep_log == <<"k", "e", "e", "p", ".", "l", "o", "g">>
L_q_log == <<"?", ".", "l", "o", "g">>
L_star_tmp == <<"*", ".", "t", "m", "p">>
L_abs_star_tmp == <<"/", "*", ".", "t", "m", "p">>
L_dstar_cache == <<"*", "*", "/", "c", "a", "c", "h", "e">>
L_abs_dstar_cache == <<"/", "*", "*", "/", "c", "a", "c", "h", "e">>
L_tstar == <<"*", "*", "*">>
L_a_star_b == <<"a", "*", "b">>
L_abs_readme == <<"/", "R", "E", "A", "D", "M", "E", ".", "m", "d">>
L_readme == <<"R", "E", "A", "D", "M", "E", ".", "m", "d">>
L_build_dir == <<"b", "u", "i", "l", "d", "/">>
L_not_build_dir == <<"!", "b", "u", "i", "l", "d", "/">>
L_abs_build_dir == <<"/", "b", "u", "i", "l", "d", "/">>
L_build == <<"b", "u", "i", "l", "d">>
L_cache == <<"c", "a", "c", "h", "e">>
L_slash == <<"/">>

Lines ==
    {L_star_log, L_not_keep_log, L_not_star_log, L_keep_log, L_q_log, L_star_tmp,
     L_abs_star_tmp, L_dstar_cache, L_abs_dstar_cache, L_tstar, L_a_star_b,
     L_abs_readme, L_readme, L_build_dir, L_not_build_dir, L_abs_build_dir,
     L_build, L_cache, L_slash}

\* the lines the pattern lists of is_ignored_by_gitignore are made of
ListLines == {L_star_log, L_not_keep_log, L_not_star_log, L_keep_log, L_build_dir}

P_keep_log == <<"k", "e", "e", "p", ".", "l", "o", "g">>
P_other_log == <<"o", "t", "h", "e", "r", ".", "l", "o", "g">>
P_a_tmp == <<"a", ".", "t", "m", "p">>
P_dir_b_tmp == <<"d", "i", "r", "/", "b", ".", "t", "m", "p">>
P_dir_sub_tmp_c == <<"d", "i", "r", "/", "s", "u", "b", ".", "t", "m", "p", "/", "c">>
P_dir_sub_tmpx_c == <<"d", "i", "r", "/", "s", "u", "b", ".", "t", "m", "p", "x", "/", "c">>
P_cache == <<"c", "a", "c", "h", "e">>
P_a_cache == <<"a", "/", "c", "a", "c", "h", "e">>
P_a_b_cache == <<"a", "/", "b", "/", "c", "a", "c", "h", "e">>
P_a_cache_x == <<"a", "/", "c", "a", "c", "h", "e", "/", "x">>
P_xcache == <<"x", "c", "a", "c", "h", "e">>
P_readme == <<"R", "E", "A", "D", "M", "E", ".", "m", "d">>
P_sub_readme == <<"s", "u", "b", "/", "R", "E", "A", "D", "M", "E", ".", "m", "d">>
P_xreadme == <<"x", "R", "E", "A", "D", "M", "E", ".", "m", "d">>
P_readmex == <<"R", "E", "A", "D", "M", "E", ".", "m", "d", "x">>
P_build == <<"b", "u", "i", "l", "d">>
P_src_build == <<"s", "r", "c", "/", "b", "u", "i", "l", "d">>
P_build_o == <<"b", "u", "i", "l", "d", "/", "o">>
P_a_b == <<"a", "/", "b">>
P_axb == <<"a", "x", "b">>

Paths ==
    {P_keep_log, P_other_log, P_a_tmp, P_dir_b_tmp, P_dir_sub_tmp_c, P_dir_sub_tmpx_c,
     P_cache, P_a_cache, P_a_b_cache, P_a_cache_x, P_xcache, P_readme, P_sub_readme,
     P_xreadme, P_readmex, P_build, P_src_build, P_build_o, P_a_b, P_axb}

\* the paths is_ignored_by_gitignore is asked about
ListPaths == {P_keep_log, P_other_log, P_build, P_a_tmp}

\* all sequences over S of length at most n
RECURSIVE SeqsUpTo(_, _)
SeqsUpTo(S, n) ==
    IF n = 0 THEN {<<>>}
    ELSE LET shorter == SeqsUpTo(S, n - 1)
         IN  shorter \cup {Append(q, x) : q \in shorter, x \in S}

\* the Pattern objects compiled from a list of lines
Compiled(lines) == [k \in 1..Len(lines) |-> GitIgnorePattern(lines[k])]

(***************************************************************************)
(* Calls of the pattern primitives (SpecPattern).                          *)
(***************************************************************************)
\* GitIgnorePattern(line).matches(path, is_dir)
CallMatches ==
    /\ call = NoCall
    /\ \E line \in Lines, path \in Paths, is_dir \in BOOLEAN :
         call' = [op |-> "matches", line |-> line, path |-> path, is_dir |-> is_dir,
                  result |-> matches(GitIgnorePattern(line), path, is_dir)]
    /\ UNCHANGED <<tree, root_dir, config, walker, results, started>>

\* is_ignored_by_gitignore(path, is_dir, patterns)
CallIsIgnored ==
    /\ call = NoCall
    /\ \E lines \in SeqsUpTo(ListLines, MaxPatterns), path \in ListPaths, is_dir \in BOOLEAN :
         call' = [op |-> "is_ignored", lines |-> lines, path |-> path, is_dir |-> is_dir,
                  result |-> is_ignored_by_gitignore(path, is_dir, Compiled(lines))]
    /\ UNCHANGED <<tree, root_dir, config, walker, results, started>>

InitPattern ==
    /\ call = NoCall
    /\ tree = <<>>
    /\ root_dir = <<>>
    /\ config = <<>>
    /\ walker = <<>>
    /\ results = <<>>
    /\ started = 0

NextPattern == CallMatches \/ CallIsIgnored

SpecPattern == InitPattern /\ [][NextPattern]_vars

(***************************************************************************)
(* Properties of the pattern primitives (checked under SpecPattern).       *)
(***************************************************************************)
\* the positions at which a segment of the path starts, as a number of characters
Boundaries(path) == {0} \cup {p \in 1..Len(path) : path[p] = "/"}

\* s is name, or name followed by '/' and more
IsOrIsUnder(s, name) == s = name \/ StartsWith(s, name \o <<"/">>)

MaxOf(S) == CHOOSE m \in S : \A x \in S : x <= m

MatchingIndexes(lines, path, is_dir) ==
    {k \in 1..Len(lines) : matches(GitIgnorePattern(lines[k]), path, is_dir)}

\* C1: is_ignored_by_gitignore(p, isDirectory, P) is 'not negated' of the last
\* pattern of P, in list order, that matches (p, isDirectory), and false when no
\* pattern matches or P is empty; with P = ["*.log", "!keep.log"], "keep.log"
\* is not ignored and "other.log" is ignored.
C1_LastMatchWins ==
    call.op = "is_ignored" =>
        LET M == MatchingIndexes(call.lines, call.path, call.is_dir) IN
        /\ call.result = (M # {} /\ ~GitIgnorePattern(call.lines[MaxOf(M)]).is_negated)
        /\ (call.lines = <<L_star_log, L_not_keep_log>> /\ ~call.is_dir) =>
              /\ call.path = P_keep_log => ~call.result
              /\ call.path = P_other_log => call.result

\* an earlier matching pattern is overridden by a later matching negation
C1_Witness ==
    /\ call.op = "is_ignored"
    /\ call.lines = <<L_star_log, L_not_keep_log>>
    /\ call.path = P_keep_log
    /\ ~call.is_dir
    /\ call.result = FALSE

\* C4 as stated: "*.tmp" matches "a.tmp" and "dir/b.tmp" but does not match the
\* file path "dir/sub.tmp/c".
C4_Original ==
    (call.op = "matches" /\ call.line = L_star_tmp) =>
        /\ call.path \in {P_a_tmp, P_dir_b_tmp} => call.result
        /\ (call.path = P_dir_sub_tmp_c /\ ~call.is_dir) => ~call.result

\* C4 as amended: "*.tmp" matches a path exactly when one of the path's segments,
\* the last or an earlier one, ends in ".tmp"; so it matches "a.tmp", "dir/b.tmp"
\* and also "dir/sub.tmp/c".
C4_SegmentMatch ==
    (call.op = "matches" /\ call.line = L_star_tmp) =>
        LET segs == Segments(call.path) IN
        call.result = (\E k \in 1..Len(segs) : EndsWith(segs[k], <<".", "t", "m", "p">>))

C4_Witness ==
    /\ call.op = "matches"
    /\ call.line = L_star_tmp
    /\ call.path = P_dir_sub_tmp_c
    /\ ~call.is_dir
    /\ call.result = TRUE

\* C5 as stated: "**/cache" matches "cache" at the root as well as "a/cache" and
\* "a/b/cache".
C5_Original ==
    (call.op = "matches" /\ call.line = L_dstar_cache) =>
        (call.path \in {P_cache, P_a_cache, P_a_b_cache} => call.result)

\* C5 as amended: "**/cache" matches a path exactly when a segment other than
\* the first one is "cache": it matches "a/cache" and "a/b/cache" and does not
\* match "cache" at the root.
C5_NeedsLeadingSegment ==
    (call.op = "matches" /\ call.line = L_dstar_cache) =>
        LET segs == Segments(call.path) IN
        call.result = (\E k \in 2..Len(segs) : segs[k] = P_cache)

C5_Witness ==
    /\ call.op = "matches"
    /\ call.line = L_dstar_cache
    /\ call.path = P_cache
    /\ call.result = FALSE

\* the lines of Lines made of literal characters only, with no marker
LiteralLines == {L_readme, L_keep_log, L_build, L_cache}

\* C6: a pattern with a leading '/' matches only from the start of the path; a
\* pattern without it matches at the start or after any '/', and never from the
\* middle of a segment: "/README.md" matches "README.md" and not
\* "sub/README.md", "README.md" matches both and does not match "xREADME.md".
C6_Anchoring ==
    call.op = "matches" =>
        \* a literal name behind a leading '/': the path is the name or lies under it
        /\ \A name \in LiteralLines :
             call.line = <<"/">> \o name => call.result = IsOrIsUnder(call.path, name)
        \* a literal name alone: the same, from the start of some segment
        /\ \A name \in LiteralLines :
             call.line = name =>
                 call.result = (\E b \in Boundaries(call.path) :
                                    IsOrIsUnder(Drop(call.path, b), name))
        \* any line without a marker matches where the line behind a '/' matches
        \* from the start of some segment
        /\ (call.line # <<>> /\ Head(call.line) \notin {"/", "!"}) =>
              call.result = (\E b \in Boundaries(call.path) :
                  matches(GitIgnorePattern(<<"/">> \o call.line),
                          Drop(call.path, b), call.is_dir))
        /\ call.line = L_abs_readme =>
              /\ call.path = P_readme => call.result
              /\ call.path = P_sub_readme => ~call.result
        /\ call.line = L_readme =>
              /\ call.path \in {P_readme, P_sub_readme} => call.result
              /\ call.path = P_xreadme => ~call.result

C6_Witness ==
    /\ call.op = "matches"
    /\ call.line = L_abs_readme
    /\ call.path = P_sub_readme
    /\ call.result = FALSE

\* C7: a pattern ending in '/' never matches a path queried with
\* isDirectory=false, and with isDirectory=true it matches exactly when its
\* compiled expression is found in the path: "build/" is false for "build" as a
\* file and true for "build" as a directory.
C7_DirOnly ==
    (call.op = "matches" /\ EndsWith(call.line, <<"/">>)) =>
        /\ ~call.is_dir => ~call.result
        /\ call.is_dir =>
              call.result = re_search(GitIgnorePattern(call.line).regex_pattern, call.path)
        /\ (call.line = L_build_dir /\ call.path = P_build) => call.result = call.is_dir

C7_Witness ==
    /\ call.op = "matches"
    /\ call.line = L_build_dir
    /\ call.path = P_build
    /\ ~call.is_dir
    /\ call.result = FALSE

====
